---- MODULE Spec2Model ----
(***************************************************************************)
(* Streaming relay of mini-chatbox-rag-agent: the three chat streaming      *)
(* handlers (ChatViewSet.stream, chat_stream_asgi, ChatConsumer.receive),   *)
(* their shared line-buffering parser of the upstream event stream, and the *)
(* worker thread / queue / delivery loop of the WebSocket consumer.         *)
(*                                                                         *)
(* The wire is a sequence of bytes.  A byte is written as a string; runs of *)
(* ASCII bytes that the code never looks inside are abbreviated to one      *)
(* symbol (the run `data`, the run `[DONE]`, the fixed head and tail of a   *)
(* delta document, and whole small JSON documents).  The bytes the code     *)
(* does look at are single symbols: LF, CR, SP, ":", the UTF-8 lead byte    *)
(* C3, the continuation byte A9 and the byte FF that no UTF-8 text holds.   *)
(***************************************************************************)
EXTENDS Integers, Sequences, FiniteSets, TLC

(***************************************************************************)
(* Bounds of the model.                                                     *)
(***************************************************************************)
MaxLines == 2
MaxChunk == 2

(***************************************************************************)
(* Bytes and text.                                                          *)
(***************************************************************************)
\* whole JSON documents that are one symbol on the wire
JNull      == "null"
JArray     == "[1]"
JEmptyObj  == "{}"
JNoChoices == "{\"choices\":[]}"
JDeltaNull == "{\"choices\":[{\"delta\":null}]}"
JRole      == "{\"choices\":[{\"delta\":{\"role\":\"assistant\"},\"finish_reason\":null}]}"
JStop      == "{\"choices\":[{\"delta\":{},\"finish_reason\":\"stop\"}]}"
JFinEmpty  == "{\"choices\":[{\"delta\":{},\"finish_reason\":\"\"}]}"
JHiLength  == "{\"choices\":[{\"delta\":{\"content\":\"H\"},\"finish_reason\":\"length\"}]}"
\* head and tail of {"choices":[{"delta":{"content":"<text>"}}]}
JHead == "{\"choices\":[{\"delta\":{\"content\":\""
JTail == "\"}}]}"

JsonDocs == {JNull, JArray, JEmptyObj, JNoChoices, JDeltaNull, JRole, JStop,
             JFinEmpty, JHiLength}

\* str.strip() removes these from both ends
Whitespace == {"SP", "CR", "LF"}

\* characters that may stand unescaped inside a JSON string
StringChars == {"H", "e'", "SP", ":", "data", "[DONE]"}

RECURSIVE Utf8Valid(_)
\* bytes.decode('utf-8') raises UnicodeDecodeError unless every lead byte C3 is
\* followed by a continuation byte, and no continuation byte or FF stands alone
Utf8Valid(bs) ==
    IF bs = <<>> THEN TRUE
    ELSE IF Head(bs) = "C3"
         THEN Len(bs) >= 2 /\ bs[2] = "A9" /\ Utf8Valid(SubSeq(bs, 3, Len(bs)))
         ELSE Head(bs) \notin {"A9", "FF"} /\ Utf8Valid(Tail(bs))

RECURSIVE Utf8Decode(_)
\* the decoded text of valid bytes: C3 A9 is the one character e'
Utf8Decode(bs) ==
    IF bs = <<>> THEN <<>>
    ELSE IF Head(bs) = "C3"
         THEN <<"e'">> \o Utf8Decode(SubSeq(bs, 3, Len(bs)))
         ELSE <<Head(bs)>> \o Utf8Decode(Tail(bs))

RECURSIVE LStrip(_)
LStrip(t) == IF t # <<>> /\ Head(t) \in Whitespace THEN LStrip(Tail(t)) ELSE t

RECURSIVE RStrip(_)
RStrip(t) ==
    IF t # <<>> /\ t[Len(t)] \in Whitespace THEN RStrip(SubSeq(t, 1, Len(t) - 1)) ELSE t

\* str.strip()
Strip(t) == RStrip(LStrip(t))

\* str.startswith
StartsWith(t, p) == Len(t) >= Len(p) /\ SubSeq(t, 1, Len(p)) = p

DataPrefix == <<"data", ":", "SP">>
DoneText   == <<"[DONE]">>

(***************************************************************************)
(* json.loads and the dictionary reads of the parsing loops.  A decoded     *)
(* value is a record: Python type of the value, kind of `choices` (absent,  *)
(* empty, list), type of choices[0], type of its `delta` (dict also when    *)
(* the key is missing: .get('delta', {})), the delta's content (a text,     *)
(* <<>> when absent or empty) and the finish_reason (<<>> for None or       *)
(* absent, else a one-element sequence holding the string).                 *)
(***************************************************************************)
JsonValue(kind, choices, first, delta, content, fr) ==
    [kind |-> kind, choices |-> choices, first |-> first, delta |-> delta,
     content |-> content, finish_reason |-> fr]

JsonInvalid == JsonValue("invalid", "absent", "absent", "absent", <<>>, <<>>)

DocValue(d) ==
    CASE d = JNull      -> JsonValue("NoneType", "absent", "absent", "absent", <<>>, <<>>)
      [] d = JArray     -> JsonValue("list", "absent", "absent", "absent", <<>>, <<>>)
      [] d = JEmptyObj  -> JsonValue("dict", "absent", "absent", "absent", <<>>, <<>>)
      [] d = JNoChoices -> JsonValue("dict", "empty", "absent", "absent", <<>>, <<>>)
      [] d = JDeltaNull -> JsonValue("dict", "list", "dict", "NoneType", <<>>, <<>>)
      [] d = JRole      -> JsonValue("dict", "list", "dict", "dict", <<>>, <<>>)
      [] d = JStop      -> JsonValue("dict", "list", "dict", "dict", <<>>, <<"stop">>)
      [] d = JFinEmpty  -> JsonValue("dict", "list", "dict", "dict", <<>>, <<"">>)
      [] d = JHiLength  -> JsonValue("dict", "list", "dict", "dict", <<"H">>, <<"length">>)

\* json.loads(s): surrounding whitespace is allowed; the text must be exactly one
\* document; anything else raises JSONDecodeError (kind "invalid")
JsonLoads(s) ==
    LET t == Strip(s) IN
    IF Len(t) = 1 /\ t[1] \in JsonDocs THEN DocValue(t[1])
    ELSE IF Len(t) >= 2 /\ t[1] = JHead /\ t[Len(t)] = JTail
            /\ \A i \in 2..(Len(t) - 1) : t[i] \in StringChars
         THEN JsonValue("dict", "list", "dict", "dict",
                        SubSeq(t, 2, Len(t) - 1), <<>>)
         ELSE JsonInvalid

\* Python truth of an optional string: None and '' are false
Truthy(opt) == opt # <<>> /\ opt[1] # ""


(***************************************************************************)
(* One line of the upstream stream, as the three parsing loops treat it     *)
(* (the loops are the same text up to how they emit).  The result is the    *)
(* sequence of parser operations of the line: content(text), DONE, finish   *)
(* (finish_reason), raise(message of the exception that leaves the loop).   *)
(***************************************************************************)
Op(k, text, fr, msg) == [k |-> k, text |-> text, finish_reason |-> fr, msg |-> msg]

OpContent(text) == Op("content", text, "None", <<>>)
OpDONE          == Op("DONE", <<>>, "None", <<>>)
OpFinish(fr)    == Op("finish", <<>>, fr, <<>>)
OpRaise(msg)    == Op("raise", <<>>, "None", msg)

\* str(e) of the AttributeError raised by .get on a value that is no dict
NoGetMsg(type) == <<type, " object has no attribute 'get'">>

\* chunk_data.get / choices[0].get / delta.get and the two emissions
ReadChoices(chunk_data) ==
    IF chunk_data.kind # "dict" THEN <<OpRaise(NoGetMsg(chunk_data.kind))>>
    ELSE IF chunk_data.choices # "list" THEN <<>>
    ELSE IF chunk_data.first # "dict" THEN <<OpRaise(NoGetMsg(chunk_data.first))>>
    ELSE IF chunk_data.delta # "dict" THEN <<OpRaise(NoGetMsg(chunk_data.delta))>>
    ELSE (IF chunk_data.content # <<>> THEN <<OpContent(chunk_data.content)>> ELSE <<>>)
         \o (IF Truthy(chunk_data.finish_reason)
             THEN <<OpFinish(chunk_data.finish_reason[1])>> ELSE <<>>)

\* the mutant of ParseDecoded that takes a JSONDecodeError for fatal
ParseDecodedStrict(line_text) ==
    LET payload == IF StartsWith(line_text, DataPrefix)
                   THEN SubSeq(line_text, Len(DataPrefix) + 1, Len(line_text))
                   ELSE line_text
    IN  IF Strip(payload) = DoneText THEN <<OpDONE>>
        ELSE LET chunk_data == JsonLoads(payload)
             IN  IF chunk_data.kind = "invalid" THEN <<OpRaise(<<"JSONDecodeError">>)>>
                 ELSE ReadChoices(chunk_data)

\* from the `data: ` prefix on: prefix removal, [DONE], json.loads
ParseDecoded(line_text) ==
    LET payload == IF StartsWith(line_text, DataPrefix)
                   THEN SubSeq(line_text, Len(DataPrefix) + 1, Len(line_text))
                   ELSE line_text
    IN  IF Strip(payload) = DoneText THEN <<OpDONE>>
        ELSE LET chunk_data == JsonLoads(payload)
             IN  IF chunk_data.kind = "invalid" THEN <<>>
                 ELSE ReadChoices(chunk_data)

\* the mutant of ParseLine for which a UnicodeDecodeError leaves the loop
ParseLineDecodeFatal(line_bytes) ==
    IF line_bytes = <<>> THEN <<>>
    ELSE IF ~Utf8Valid(line_bytes) THEN <<OpRaise(<<"UnicodeDecodeError">>)>>
    ELSE LET line_text == Strip(Utf8Decode(line_bytes))
         IN  IF line_text = <<>> \/ StartsWith(line_text, <<":">>) THEN <<>>
             ELSE ParseDecoded(line_text)

\* the mutant of ParseLine that takes a blank line for the end of the stream
ParseLineBlankEnds(line_bytes) ==
    IF line_bytes = <<>> THEN <<>>
    ELSE IF ~Utf8Valid(line_bytes) THEN <<>>
    ELSE LET line_text == Strip(Utf8Decode(line_bytes))
         IN  IF line_text = <<>> THEN <<OpDONE>>
             ELSE IF StartsWith(line_text, <<":">>) THEN <<>>
             ELSE ParseDecoded(line_text)

\* `if not line_bytes`, decode and strip, `if not line_text or startswith(':')`
ParseLine(line_bytes) ==
    IF line_bytes = <<>> THEN <<>>
    ELSE IF ~Utf8Valid(line_bytes) THEN <<>>
    ELSE LET line_text == Strip(Utf8Decode(line_bytes))
         IN  IF line_text = <<>> \/ StartsWith(line_text, <<":">>) THEN <<>>
             ELSE ParseDecoded(line_text)

Terminal(ops) == ops # <<>> /\ ops[Len(ops)].k \in {"DONE", "finish", "raise"}

HasLF(bs) == \E i \in 1..Len(bs) : bs[i] = "LF"
FirstLF(bs) == CHOOSE i \in 1..Len(bs) : bs[i] = "LF" /\ \A j \in 1..(i - 1) : bs[j] # "LF"

RECURSIVE SplitLoopNoReturn(_, _)
\* the mutant of SplitLoop that goes on with the next line after a terminal one
SplitLoopNoReturn(buffer, ops) ==
    IF ~HasLF(buffer) THEN [buffer |-> buffer, ops |-> ops, stopped |-> Terminal(ops)]
    ELSE LET i == FirstLF(buffer)
         IN  SplitLoopNoReturn(SubSeq(buffer, i + 1, Len(buffer)),
                               ops \o ParseLine(SubSeq(buffer, 1, i - 1)))

RECURSIVE SplitLoop(_, _)
\* while b'\n' in buffer: line_bytes, buffer = buffer.split(b'\n', 1); ...
\* ends at the first line that returns or raises
SplitLoop(buffer, ops) ==
    IF ~HasLF(buffer) THEN [buffer |-> buffer, ops |-> ops, stopped |-> FALSE]
    ELSE LET i == FirstLF(buffer)
             out == ParseLine(SubSeq(buffer, 1, i - 1))
             rest == SubSeq(buffer, i + 1, Len(buffer))
         IN  IF Terminal(out) THEN [buffer |-> rest, ops |-> ops \o out, stopped |-> TRUE]
             ELSE SplitLoop(rest, ops \o out)

\* the mutant of Feed that parses each chunk on its own, keeping no residual
FeedNoResidual(buffer, byte_chunk) ==
    LET r == SplitLoop(byte_chunk, <<>>)
    IN  [buffer |-> <<>>, ops |-> r.ops, stopped |-> r.stopped]

\* buffer += byte_chunk, then the while loop
Feed(buffer, byte_chunk) == SplitLoop(buffer \o byte_chunk, <<>>)


(***************************************************************************)
(* What each transport emits for the parser's operations.  An item is a     *)
(* queue entry or envelope of the WebSocket consumer (type content, done,   *)
(* error), a chunk yielded by event_stream (type yield), or an ASGI message *)
(* (http.response.start, http.response.body with more_body).                *)
(***************************************************************************)
Item(type, body, fr, more) ==
    [type |-> type, body |-> body, finish_reason |-> fr, more_body |-> more]

RECURSIVE Utf8Encode(_)
\* str.encode('utf-8')
Utf8Encode(t) ==
    IF t = <<>> THEN <<>>
    ELSE IF Head(t) = "e'" THEN <<"C3", "A9">> \o Utf8Encode(Tail(t))
         ELSE <<Head(t)>> \o Utf8Encode(Tail(t))

ErrorMarker == "[ERROR]: "

\* stream_llm_sync: message_queue.put(...) of one operation
WsItem(op) ==
    CASE op.k = "content" -> <<Item("content", op.text, "None", FALSE)>>
      [] op.k = "DONE"    -> <<Item("done", <<>>, "None", FALSE)>>
      [] op.k = "finish"  -> <<Item("done", <<>>, op.finish_reason, FALSE)>>
      [] op.k = "raise"   -> <<Item("error", op.msg, "None", FALSE)>>

\* the mutant of HttpItem that frames each delta as a server-sent event
HttpItemFramed(op) ==
    CASE op.k = "content" -> <<Item("yield", <<"data: ">> \o op.text \o <<"\n\n">>, "None", FALSE)>>
      [] op.k = "DONE"    -> <<>>
      [] op.k = "finish"  -> <<>>
      [] op.k = "raise"   -> <<Item("yield", <<ErrorMarker>> \o op.msg, "None", FALSE)>>

\* event_stream: the yields of one operation; [DONE] and finish_reason only return
HttpItem(op) ==
    CASE op.k = "content" -> <<Item("yield", op.text, "None", FALSE)>>
      [] op.k = "DONE"    -> <<>>
      [] op.k = "finish"  -> <<>>
      [] op.k = "raise"   -> <<Item("yield", <<ErrorMarker>> \o op.msg, "None", FALSE)>>

\* the mutant of AsgiItem that encodes a delta as Latin-1
AsgiItemLatin1(op) ==
    CASE op.k = "content" -> <<Item("http.response.body",
                                    IF op.text = <<"e'">> THEN <<"E9">> ELSE op.text, "None", TRUE)>>
      [] op.k = "DONE"    -> <<Item("http.response.body", <<>>, "None", FALSE)>>
      [] op.k = "finish"  -> <<Item("http.response.body", <<>>, "None", FALSE)>>
      [] op.k = "raise"   -> <<Item("http.response.body", <<ErrorMarker>> \o op.msg, "None", FALSE)>>

\* chat_stream_asgi: the body messages of one operation
AsgiItem(op) ==
    CASE op.k = "content" -> <<Item("http.response.body", Utf8Encode(op.text), "None", TRUE)>>
      [] op.k = "DONE"    -> <<Item("http.response.body", <<>>, "None", FALSE)>>
      [] op.k = "finish"  -> <<Item("http.response.body", <<>>, "None", FALSE)>>
      [] op.k = "raise"   -> <<Item("http.response.body", <<ErrorMarker>> \o op.msg, "None", FALSE)>>

ItemOf(tr, op) ==
    CASE tr = "ws" -> WsItem(op) [] tr = "http" -> HttpItem(op) [] tr = "asgi" -> AsgiItem(op)

RECURSIVE Items(_, _)
Items(tr, ops) == IF ops = <<>> THEN <<>> ELSE ItemOf(tr, Head(ops)) \o Items(tr, Tail(ops))

\* the body of the upstream's error response (api_response.text)
ErrorBody == "{\"error\":\"bad key\"}"

\* status_code != 200: one error item, then return.  The ASGI message carries
\* no more_body key, which ASGI reads as more_body false.
StatusError(tr) == Items(tr, <<OpRaise(<<"API error: ", ErrorBody>>)>>)

\* the except clauses around the upstream exchange; only event_stream has a
\* clause of its own for requests.exceptions.Timeout
Exc(cls, msg) == [cls |-> cls, msg |-> msg]
ExceptItems(tr, e) ==
    IF tr = "http" /\ e.cls = "requests.Timeout"
    THEN <<Item("yield", <<ErrorMarker, "Request timeout">>, "None", FALSE)>>
    ELSE Items(tr, <<OpRaise(e.msg)>>)

\* the read granularity of raw.stream(amt=...)
AmtWs   == 8192
AmtHttp == 1
Amt(tr) == IF tr = "ws" THEN AmtWs ELSE AmtHttp

\* upstream end of file with no terminator: only stream_llm_sync emits (line 186)
EofItems(tr) == IF tr = "ws" THEN <<Item("done", <<>>, "None", FALSE)>> ELSE <<>>


(***************************************************************************)
(* The upstream streams the model runs on.                                  *)
(***************************************************************************)
LHi        == <<"data", ":", "SP", JHead, "H", JTail>>
LAccent    == <<"data", ":", "SP", JHead, "C3", "A9", JTail, "CR">>
LDone      == <<"data", ":", "SP", "[DONE]">>
LStop      == <<"data", ":", "SP", JStop>>
LHiLength  == <<"data", ":", "SP", JHiLength>>
LRole      == <<"data", ":", "SP", JRole>>
LFinEmpty  == <<"data", ":", "SP", JFinEmpty>>
LBad       == <<"data", ":", "SP", JHead, "H">>
LNoSpace   == <<"data", ":", JHead, "H", JTail>>
LComment   == <<":", "SP", "H">>
LBlank     == <<"CR">>
LEmpty     == <<>>
LNotUtf8   == <<"data", ":", "SP", JHead, "FF", JTail>>
LNull      == <<"data", ":", "SP", JNull>>
LArray     == <<JArray>>
LDeltaNull == <<"data", ":", "SP", JDeltaNull>>
LNoChoices == <<"data", ":", "SP", JNoChoices>>

\* lines that are not valid JSON after the prefix is removed
MalformedLines == {LBad, LNoSpace}
\* lines that are JSON but not an object of the expected shape
MisshapenLines == {LNull, LArray, LDeltaNull}
SilentLines == {LComment, LBlank, LEmpty}
DeltaLines == {LHi, LAccent}

ParseMenu == DeltaLines \cup MalformedLines \cup MisshapenLines \cup SilentLines
             \cup {LDone, LStop, LHiLength, LRole, LFinEmpty, LNotUtf8, LNoChoices}
RelayMenu == {LHi, LDone, LStop, LHiLength, LFinEmpty}

SeqsUpTo(S, n) == UNION {[1..k -> S] : k \in 0..n}

RECURSIVE Join(_)
\* the bytes of a sequence of lines, each ended by a line feed
Join(lines) == IF lines = <<>> THEN <<>> ELSE Head(lines) \o <<"LF">> \o Join(Tail(lines))

VARIABLES
    transport,      \* "ws" (ChatConsumer), "http" (ChatViewSet.stream), "asgi"
    status,         \* api_response.status_code
    lines,          \* the lines the upstream will send (fixed at Init)
    upstream,       \* bytes the upstream has not delivered yet
    consumed,       \* bytes read from the upstream so far
    buffer,         \* the residual buffer of the parsing loop
    hpc,            \* where the worker / generator / handler stands
    pending,        \* items of the chunk at hand not yet emitted
    stopped,        \* the loop has returned or raised: exit after emitting
    produced,       \* every item emitted so far (queue puts, yields, body sends)
    message_queue,  \* queue.Queue() between stream_llm_sync and the delivery loop
    alive,          \* thread.is_alive()
    dpc,            \* where the delivery loop of ChatConsumer.receive stands
    sent,           \* what has been written downstream, in order
    disconnected,   \* the downstream client has gone
    request,        \* the request as the entry point finds it
    settings,       \* the UserSettings record of the user
    posts,          \* how many times requests.post has been called
    raised,         \* the exception raised in the handler, NoExc before
    closed,         \* the with block around api_response has been left
    failed,         \* the messages whose send raised, in order
    fields,         \* api_key, base_url and temperature of the UserSettings record
    lookups,        \* how many times the entry point has fetched the record
    prepared,       \* base_url, headers and payload as the entry point built them
    posted,         \* the URL, headers and payload requests.post was called with
    inbox,          \* the messages receive() of the ASGI scope will return, in order
    message,        \* the message receive() returned last
    bpc,            \* where chat_stream_asgi stands with the request body
    scope,          \* scope['type'] of the connection
    tick_i,         \* the loop variable i of test_stream_raw_asgi
    turns,          \* two chat requests of ChatConsumer: the locals of each receive call
    queues,         \* the queue.Queue() objects of the two calls
    buffers,        \* the parser buffers of the two workers
    wire            \* per connection, the envelopes sent and the call that sent each

vars == <<transport, status, lines, upstream, consumed, buffer, hpc, pending, stopped,
          produced, message_queue, alive, dpc, sent, disconnected,
          request, settings, posts, raised, closed, failed,
          fields, lookups, prepared, posted, inbox, message, bpc, scope, tick_i,
          turns, queues, buffers, wire>>

Transports == {"ws", "http", "asgi"}

\* the http.response.start message with its status
Start(code) == Item("http.response.start", <<code>>, "None", FALSE)
StartMessage == Start("200")

\* a last line the upstream may leave without its line feed
Tails == {<<>>, LHi}
\* ... or nothing or a last [DONE] without it
EndTails == {<<>>, LDone}

NoExc == Exc("none", <<>>)

\* the characters of a base URL: a slash, "v", "1" and any other character
UrlChars == {"/", "v", "1", "a"}
V1 == <<"/", "v", "1">>
\* os.getenv('OPENAI_API_BASE', 'https://api.openai.com/v1') with the variable unset
DefaultBase == <<"a", "/", "v", "1">>

EndsWith(u, suffix) ==
    Len(u) >= Len(suffix) /\ SubSeq(u, Len(u) - Len(suffix) + 1, Len(u)) = suffix

RECURSIVE RStripSlash(_)
\* str.rstrip('/')
RStripSlash(u) ==
    IF u # <<>> /\ u[Len(u)] = "/" THEN RStripSlash(SubSeq(u, 1, Len(u) - 1)) ELSE u

\* the mutant of Normalize that appends /v1 whatever the URL ends with
NormalizeAlwaysAppend(u) == RStripSlash(u) \o V1

\* base_url.rstrip('/'), then `if not base_url.endswith('/v1')` append it
Normalize(u) ==
    LET base_url == RStripSlash(u)
    IN  IF EndsWith(base_url, V1) THEN base_url ELSE base_url \o V1

\* `settings.base_url or os.getenv(...)`: None and '' give the default
BaseOrDefault(u) == IF u = <<>> THEN DefaultBase ELSE u

\* what the entry point builds from the record: base_url, the Authorization
\* header, the sampling parameters of the payload
Config(f) ==
    [base_url |-> Normalize(BaseOrDefault(f.base_url)),
     Authorization |-> <<"Bearer ", f.api_key>>,
     temperature |-> f.temperature]
NoConfig == [base_url |-> <<>>, Authorization |-> <<>>, temperature |-> "none"]

\* the fields of a record as SettingsViewSet may have saved it
Keys == {"", "sk-1", "sk-2"}
Bases == {<<>>, <<"1", "/">>}
Temperatures == {"0.7", "1.0"}
FieldsOf(state) ==
    [api_key |-> IF state = "ok" THEN "sk-1" ELSE "", base_url |-> <<>>, temperature |-> "0.7"]

\* what the entry point may be handed: a well-formed request, a method other than
\* POST, a body that is not JSON, a messages list whose entries are not objects
Requests(tr) ==
    CASE tr = "asgi" -> {"ok", "bad_method", "bad_json", "bad_messages"}
      [] tr = "ws"   -> {"ok", "bad_json", "bad_messages"}
      [] tr = "http" -> {"ok"}

\* the messages of an ASGI receive channel
HttpRequest(more_body) == [type |-> "http.request", more_body |-> more_body]
HttpDisconnect == [type |-> "http.disconnect", more_body |-> FALSE]
NoMessage == [type |-> "none", more_body |-> FALSE]

\* a request body arrives in up to MaxParts messages; the client may go away
\* before the last one, and receive() then returns http.disconnect
MaxParts == 2

Inboxes(tr) ==
    IF tr # "asgi" THEN {<<>>}
    ELSE {more \o <<last>> : more \in SeqsUpTo({HttpRequest(TRUE)}, MaxParts - 1),
                              last \in {HttpRequest(FALSE), HttpDisconnect}}

\* the settings record: present with a key, absent, present with an empty api_key
SettingsStates == {"ok", "missing", "nokey"}

\* the requests of the two-request runs, and their absence in the other runs
Rs == {1, 2}
IdleTurn(conn, ls, tail) ==
    [conn |-> conn, lines |-> ls, upstream |-> Join(ls) \o tail, consumed |-> <<>>,
     wpc |-> "idle", alive |-> FALSE, dpc |-> "idle"]
NoTurns ==
    /\ turns = [r \in Rs |-> IdleTurn(r, <<>>, <<>>)]
    /\ queues = [r \in Rs |-> <<>>]
    /\ buffers = [r \in Rs |-> <<>>]
    /\ wire = [c \in Rs |-> <<>>]

InitWith(streams, tails) ==
    /\ transport \in Transports
    /\ status \in {200, 401}
    /\ lines \in streams
    /\ \E tail \in tails : upstream = Join(lines) \o tail
    /\ consumed = <<>>
    /\ buffer = <<>>
    /\ hpc = "entry"
    /\ pending = <<>>
    /\ stopped = FALSE
    /\ produced = <<>>
    /\ message_queue = <<>>
    /\ alive = FALSE
    /\ dpc = "idle"
    /\ sent = <<>>
    /\ disconnected = FALSE
    /\ posts = 0
    /\ raised = NoExc
    /\ closed = FALSE
    /\ failed = <<>>
    /\ lookups = 0
    /\ prepared = NoConfig
    /\ posted = NoConfig
    /\ inbox \in Inboxes(transport)
    /\ message = NoMessage
    /\ bpc = "idle"
    /\ scope = (IF transport = "ws" THEN "websocket" ELSE "http")
    /\ tick_i = 0
    /\ NoTurns

\* the scope types an ASGI server hands to an application
ScopeTypes == {"http", "websocket", "lifespan"}

\* test_stream_raw_asgi is called with a scope; it has no upstream, no request
\* body and no settings to look at
InitRaw ==
    /\ transport = "raw" /\ scope \in ScopeTypes /\ tick_i = 0
    /\ status = 200 /\ lines = <<>> /\ upstream = <<>> /\ consumed = <<>> /\ buffer = <<>>
    /\ hpc = "call" /\ pending = <<>> /\ stopped = FALSE /\ produced = <<>>
    /\ message_queue = <<>> /\ alive = FALSE /\ dpc = "idle" /\ sent = <<>>
    /\ disconnected = FALSE /\ posts = 0 /\ raised = NoExc /\ closed = FALSE
    /\ failed = <<>> /\ lookups = 0 /\ prepared = NoConfig /\ posted = NoConfig
    /\ inbox = <<>> /\ message = NoMessage /\ bpc = "idle"
    /\ request = "ok" /\ settings = "ok" /\ fields = FieldsOf("ok")
    /\ NoTurns

Init ==
    \/ /\ InitWith(SeqsUpTo(RelayMenu, MaxLines), {<<>>})
       /\ request \in Requests(transport)
       /\ settings \in SettingsStates
       /\ fields = FieldsOf(settings)
    \/ InitRaw

\* what a run never changes
tvars == <<scope, tick_i>>
mvars == <<turns, queues, buffers, wire>>
rvars == <<transport, status, lines, request, settings, fields, tvars, mvars>>
bvars == <<inbox, message, bpc>>
cvars == <<rvars, lookups, prepared, posted, bvars>>
hvars == <<cvars, upstream, consumed, buffer, hpc, pending, stopped, produced,
           posts, raised, closed, failed>>

\* str(e) of json.loads on a body that is not JSON
JsonErrorText == "Expecting value: line 1 column 1 (char 0)"

\* the method check and the JSON parse of the request
RequestErrors(tr, req) ==
    CASE tr = "asgi" /\ req = "bad_method" ->
            <<Start("405"), Item("http.response.body", <<"Method not allowed">>, "None", FALSE)>>
      [] tr = "asgi" /\ req = "bad_json" ->
            <<Start("400"),
              Item("http.response.body", <<ErrorMarker, "Invalid request: ", JsonErrorText>>,
                   "None", FALSE)>>
      [] tr = "ws" /\ req = "bad_json" -> <<Item("error", <<JsonErrorText>>, "None", FALSE)>>
      [] OTHER -> <<>>

MsgConfigure == "API key not configured. Please configure your settings first."
MsgAddKey    == "API key not configured. Please add your API key in settings."
CredentialText(st) == IF st = "missing" THEN MsgConfigure ELSE MsgAddKey

\* the mutant of CredentialErrors that goes on without a credential
CredentialErrorsUnchecked(tr, st) == <<>>

\* UserSettings.DoesNotExist and `if not settings.api_key`: what is sent before
\* the entry point returns; <<>> when the credential is there
CredentialErrors(tr, st) ==
    IF st = "ok" THEN <<>>
    ELSE CASE tr = "ws"   -> <<Item("error", <<CredentialText(st)>>, "None", FALSE)>>
           [] tr = "http" -> <<Item("yield", <<ErrorMarker, CredentialText(st)>>, "None", FALSE)>>
           [] tr = "asgi" ->
                <<Start("200"),
                  Item("http.response.body", <<ErrorMarker, "API key not configured">>,
                       "None", FALSE)>>

\* `for msg in messages: msg.get(...)` on an entry that is a string: receive
\* catches it in its outer except clause, chat_stream_asgi lets it escape
PayloadFault == Exc("AttributeError", NoGetMsg("str"))
PayloadErrors(tr) == IF tr = "ws" THEN <<Item("error", PayloadFault.msg, "None", FALSE)>> ELSE <<>>

\* chat_stream_asgi: the method check; a POST goes on to read its body
Accept ==
    /\ transport = "asgi" /\ hpc = "entry" /\ bpc = "idle"
    /\ IF request = "bad_method"
       THEN sent' = RequestErrors(transport, request) /\ hpc' = "done" /\ bpc' = bpc
       ELSE sent' = sent /\ hpc' = hpc /\ bpc' = "reading"
    /\ UNCHANGED <<rvars, inbox, message, lookups, prepared, posted, upstream, consumed,
                   buffer, pending, stopped, produced, message_queue, alive, dpc,
                   disconnected, posts, raised, closed, failed>>

\* one turn of `while True: message = await receive()`: an http.request adds to
\* the body and ends the loop unless more_body; any other message is passed
\* over, and once the client has gone receive() has nothing else to return
ReceiveBody ==
    /\ transport = "asgi" /\ bpc = "reading" /\ inbox # <<>>
    /\ message' = Head(inbox)
    /\ IF Head(inbox).type = "http.request"
       THEN /\ inbox' = Tail(inbox)
            /\ bpc' = IF Head(inbox).more_body THEN "reading" ELSE "read"
            /\ UNCHANGED <<hpc, disconnected>>
       ELSE /\ inbox' = inbox
            /\ bpc' = bpc /\ hpc' = hpc
            /\ disconnected' = TRUE
    /\ UNCHANGED <<rvars, lookups, prepared, posted, upstream, consumed, buffer, pending,
                   stopped, produced, message_queue, alive, dpc, sent, posts, raised,
                   closed, failed>>

\* the entry point up to the payload: request, credential, messages
Entry ==
    /\ hpc = "entry"
    /\ transport = "asgi" => bpc = "read"
    /\ LET early == IF RequestErrors(transport, request) # <<>>
                    THEN RequestErrors(transport, request)
                    ELSE CredentialErrors(transport, settings)
           escapes == early = <<>> /\ request = "bad_messages"
       IN  /\ sent' = IF escapes THEN PayloadErrors(transport) ELSE early
           /\ raised' = IF escapes THEN PayloadFault ELSE raised
           /\ hpc' = IF early # <<>> \/ escapes THEN "done" ELSE "begin"
           /\ dpc' = IF (early # <<>> \/ escapes) /\ transport = "ws" THEN "returned" ELSE dpc
           /\ lookups' = IF RequestErrors(transport, request) = <<>> THEN lookups + 1 ELSE lookups
           /\ prepared' = IF early = <<>> /\ ~escapes THEN Config(fields) ELSE prepared
    /\ UNCHANGED <<rvars, bvars, posted, upstream, consumed, buffer, pending, stopped, produced,
                   message_queue, alive, disconnected, posts, closed, failed>>

\* thread.start() (ws); the response start message (asgi); the iteration of the
\* StreamingHttpResponse begins (http)
Begin ==
    /\ hpc = "begin"
    /\ hpc' = "post"
    /\ alive' = (transport = "ws")
    /\ dpc' = IF transport = "ws" THEN "poll" ELSE dpc
    /\ sent' = IF transport = "asgi" THEN <<StartMessage>> ELSE sent
    /\ UNCHANGED <<cvars, upstream, consumed, buffer, pending, stopped, produced,
                   message_queue, disconnected, posts, raised, closed, failed>>

\* the mutant of Post that builds the request from the record as it is now
PostRereads ==
    /\ hpc = "post"
    /\ posts' = posts + 1
    /\ posted' = Config(fields)
    /\ hpc' = "open"
    /\ UNCHANGED <<rvars, bvars, lookups, prepared, upstream, consumed, buffer, pending, stopped,
                   produced, message_queue, alive, dpc, sent, disconnected, raised, closed,
                   failed>>

\* requests.post(f"{base_url}/chat/completions", headers=headers, json=payload,
\* stream=True, timeout=60) is called, with the locals the entry point built
Post ==
    /\ hpc = "post"
    /\ posts' = posts + 1
    /\ posted' = prepared
    /\ hpc' = "open"
    /\ UNCHANGED <<rvars, bvars, lookups, prepared, upstream, consumed, buffer, pending, stopped,
                   produced, message_queue, alive, dpc, sent, disconnected, raised, closed,
                   failed>>

\* the mutant of Open that never looks at the status code
OpenNoStatusCheck ==
    /\ hpc = "open"
    /\ pending' = <<>>
    /\ stopped' = FALSE
    /\ hpc' = "read"
    /\ UNCHANGED <<cvars, upstream, consumed, buffer, produced, message_queue, alive, dpc,
                   sent, disconnected, posts, raised, closed, failed>>

\* requests.post(...) returned: the status check
Open ==
    /\ hpc = "open"
    /\ IF status # 200
       THEN /\ pending' = StatusError(transport)
            /\ stopped' = TRUE
            /\ hpc' = "emit"
       ELSE /\ pending' = <<>>
            /\ stopped' = FALSE
            /\ hpc' = "read"
    /\ UNCHANGED <<cvars, upstream, consumed, buffer, produced, message_queue, alive, dpc,
                   sent, disconnected, posts, raised, closed, failed>>

AfterChunk(items, stop) == IF items # <<>> THEN "emit" ELSE IF stop THEN "exit" ELSE "read"

\* the exception a list of operations ends with, NoExc when it ends otherwise
RaisedBy(ops) ==
    IF ops # <<>> /\ ops[Len(ops)].k = "raise"
    THEN Exc("AttributeError", ops[Len(ops)].msg) ELSE NoExc

\* one iteration of `for byte_chunk in api_response.raw.stream(amt=...)`
Read(n) ==
    /\ hpc = "read"
    /\ upstream # <<>>
    /\ n <= Len(upstream)
    /\ n <= Amt(transport)
    /\ LET byte_chunk == SubSeq(upstream, 1, n)
           r == Feed(buffer, byte_chunk)
           items == Items(transport, r.ops)
       IN  /\ upstream' = SubSeq(upstream, n + 1, Len(upstream))
           /\ consumed' = consumed \o byte_chunk
           /\ buffer' = r.buffer
           /\ pending' = items
           /\ stopped' = r.stopped
           /\ raised' = RaisedBy(r.ops)
           /\ closed' = (RaisedBy(r.ops) # NoExc)
           /\ hpc' = AfterChunk(items, r.stopped)
    /\ UNCHANGED <<cvars, produced, message_queue, alive, dpc, sent, disconnected,
                   posts, failed>>

\* the mutant of ReadEOF that parses what the buffer still holds as a last line
ReadEOFFlush ==
    /\ hpc = "read"
    /\ upstream = <<>>
    /\ LET last == Feed(buffer, <<"LF">>)
           items == Items(transport, last.ops) \o
                    (IF last.stopped THEN <<>> ELSE EofItems(transport))
       IN  /\ pending' = items
           /\ hpc' = AfterChunk(items, TRUE)
    /\ stopped' = TRUE
    /\ UNCHANGED <<cvars, upstream, consumed, buffer, produced, message_queue, alive, dpc,
                   sent, disconnected, posts, raised, closed, failed>>

\* the upstream closed the body: the for loop ends
ReadEOF ==
    /\ hpc = "read"
    /\ upstream = <<>>
    /\ pending' = EofItems(transport)
    /\ stopped' = TRUE
    /\ hpc' = AfterChunk(EofItems(transport), TRUE)
    /\ UNCHANGED <<cvars, upstream, consumed, buffer, produced, message_queue, alive, dpc,
                   sent, disconnected, posts, raised, closed, failed>>

\* queue.Queue(): maxsize 0, which the queue module reads as no bound
maxsize == 0
QueueFull(q) == maxsize > 0 /\ Len(q) >= maxsize

\* the exception of `await send(...)` once the client has gone
SendFault == Exc("ClientDisconnected", <<>>)

\* the item at hand is the one the except clause sends
InExcept == raised # NoExc /\ Len(pending) = 1

\* message_queue.put(item) / yield item / await send(item).  put waits while the
\* queue is full; the generator is suspended at its yield; a send to a client
\* that has gone raises, inside the try block unless the except clause is sending
Emit ==
    /\ hpc = "emit"
    /\ pending # <<>>
    /\ transport = "ws" => ~QueueFull(message_queue)
    /\ IF transport = "asgi" /\ disconnected
       THEN /\ failed' = Append(failed, Head(pending))
            /\ IF InExcept
               THEN pending' = <<>> /\ hpc' = "done" /\ raised' = raised
               ELSE /\ pending' = ExceptItems(transport, SendFault)
                    /\ hpc' = "emit"
                    /\ raised' = SendFault
            /\ stopped' = TRUE
            /\ closed' = TRUE
            /\ UNCHANGED <<produced, message_queue, sent>>
       ELSE /\ produced' = Append(produced, Head(pending))
            /\ IF transport = "ws"
               THEN message_queue' = Append(message_queue, Head(pending)) /\ sent' = sent
               ELSE sent' = Append(sent, Head(pending)) /\ message_queue' = message_queue
            /\ pending' = Tail(pending)
            /\ hpc' = IF transport = "http" THEN "yielded" ELSE AfterChunk(Tail(pending), stopped)
            /\ UNCHANGED <<stopped, raised, closed, failed>>
    /\ UNCHANGED <<cvars, upstream, consumed, buffer, alive, dpc, disconnected, posts>>

\* the consumer of the StreamingHttpResponse asks for the next chunk
Resume ==
    /\ hpc = "yielded"
    /\ hpc' = AfterChunk(pending, stopped)
    /\ UNCHANGED <<cvars, upstream, consumed, buffer, pending, stopped, produced,
                   message_queue, alive, dpc, sent, disconnected, posts, raised, closed, failed>>

\* the mutant of Close whose except clause catches GeneratorExit as well
CloseCaught ==
    /\ transport = "http"
    /\ hpc = "yielded"
    /\ disconnected' = TRUE
    /\ closed' = TRUE
    /\ hpc' = "done"
    /\ produced' = produced \o ExceptItems(transport, Exc("GeneratorExit", <<>>))
    /\ UNCHANGED <<cvars, upstream, consumed, buffer, pending, stopped, message_queue,
                   alive, dpc, sent, posts, raised, failed>>

\* the client has gone and the response is closed: generator.close() raises
\* GeneratorExit at the yield; `except Exception` does not catch it, the with
\* block closes api_response on the way out
Close ==
    /\ transport = "http"
    /\ hpc = "yielded"
    /\ disconnected' = TRUE
    /\ closed' = TRUE
    /\ hpc' = "done"
    /\ UNCHANGED <<cvars, upstream, consumed, buffer, pending, stopped, produced,
                   message_queue, alive, dpc, sent, posts, raised, failed>>

\* the worker / generator / handler returns
Exit ==
    /\ hpc = "exit"
    /\ hpc' = "done"
    /\ alive' = FALSE
    /\ closed' = TRUE
    /\ UNCHANGED <<cvars, upstream, consumed, buffer, pending, stopped, produced,
                   message_queue, dpc, sent, disconnected, posts, raised, failed>>


\* exceptions of the upstream exchange: requests.post timing out or finding no
\* server, the body read timing out inside urllib3, and one whose str() is empty
\* (MemoryError while the buffer grows)
FaultsAtOpen == {Exc("requests.Timeout", <<"timed out">>),
                 Exc("requests.ConnectionError", <<"Connection refused">>)}
FaultsAtRead == {Exc("urllib3.ReadTimeoutError", <<"Read timed out.">>), Exc("MemoryError", <<>>)}

\* requests.post or raw.stream raises: the except clause emits, the handler ends
Fault ==
    /\ hpc \in {"open", "read"}
    /\ \E e \in (IF hpc = "open" THEN FaultsAtOpen ELSE FaultsAtRead) :
          /\ pending' = ExceptItems(transport, e)
          /\ raised' = e
    /\ stopped' = TRUE
    /\ closed' = TRUE
    /\ hpc' = "emit"
    /\ UNCHANGED <<cvars, upstream, consumed, buffer, produced, message_queue, alive, dpc,
                   sent, disconnected, posts, failed>>

(***************************************************************************)
(* The delivery loop of ChatConsumer.receive.                               *)
(***************************************************************************)
\* chunk.get(key): the value under the key, <<>> standing for a missing key
Get(chunk, key) == IF chunk.type = key THEN <<chunk.body>> ELSE <<>>
\* a missing key, '' and an empty text are all false
Present(v) == v # <<>> /\ v[1] # <<>>

\* the mutant of DoneEnvelope that passes the chunk's finish_reason on as it is
DoneEnvelopeNoDefault(chunk) == Item("done", <<>>, chunk.finish_reason, FALSE)

\* chunk.get('finish_reason', 'stop')
DoneEnvelope(chunk) ==
    Item("done", <<>>,
         IF chunk.finish_reason = "None" THEN "stop" ELSE chunk.finish_reason, FALSE)

\* lines 204-222: what one dequeued chunk sends
Envelopes(chunk) ==
    IF Present(Get(chunk, "error")) THEN <<Item("error", chunk.body, "None", FALSE)>>
    ELSE (IF Present(Get(chunk, "content"))
          THEN <<Item("content", chunk.body, "None", FALSE)>> ELSE <<>>)
         \o (IF chunk.type = "done" THEN <<DoneEnvelope(chunk)>> ELSE <<>>)

\* ... and whether the loop breaks after it
Breaks(chunk) == Present(Get(chunk, "error")) \/ chunk.type = "done"

\* lines 229-234: the chunk found by get_nowait after the worker has stopped
LateEnvelopes(chunk) == IF chunk.type = "done" THEN <<DoneEnvelope(chunk)>> ELSE <<>>

dvars == <<message_queue, dpc, sent>>

\* message_queue.get(timeout=0.01) returned a chunk
Poll ==
    /\ dpc = "poll"
    /\ message_queue # <<>>
    /\ LET chunk == Head(message_queue)
       IN  /\ sent' = sent \o Envelopes(chunk)
           /\ dpc' = IF Breaks(chunk) THEN "join" ELSE "poll"
    /\ message_queue' = Tail(message_queue)
    /\ UNCHANGED <<hvars, alive, disconnected>>

\* message_queue.get(timeout=0.01) raised queue.Empty
PollTimeout ==
    /\ dpc = "poll"
    /\ message_queue = <<>>
    /\ dpc' = "empty"
    /\ UNCHANGED <<hvars, message_queue, alive, sent, disconnected>>

\* the mutant of CheckAlive that sleeps and polls again in either case
CheckAliveNoBreak ==
    /\ dpc = "empty"
    /\ dpc' = "poll"
    /\ UNCHANGED <<hvars, message_queue, sent, alive, disconnected>>

\* except queue.Empty: thread.is_alive(), get_nowait, break or sleep
CheckAlive ==
    /\ dpc = "empty"
    /\ IF alive
       THEN dpc' = "poll" /\ UNCHANGED <<message_queue, sent>>
       ELSE /\ dpc' = "join"
            /\ IF message_queue # <<>>
               THEN /\ sent' = sent \o LateEnvelopes(Head(message_queue))
                    /\ message_queue' = Tail(message_queue)
               ELSE UNCHANGED <<message_queue, sent>>
    /\ UNCHANGED <<hvars, alive, disconnected>>

\* thread.join(timeout=1): returns when the worker has ended or after a second
Join1 ==
    /\ dpc = "join"
    /\ dpc' = "returned"
    /\ UNCHANGED <<hvars, message_queue, alive, sent, disconnected>>

\* the client goes away.  On the WebSocket while receive is in its loop:
\* ChatConsumer.disconnect is `pass` and runs only after receive has returned.
\* On the ASGI handler once the response has started: nothing tells the handler
\* until its next send.
Disconnect ==
    /\ ~disconnected
    /\ \/ transport = "ws" /\ dpc \in {"poll", "empty"}
       \/ transport = "asgi" /\ hpc \in {"post", "open", "read", "emit"}
       \/ transport = "raw" /\ hpc \in {"tick", "sleep", "last"}
    /\ disconnected' = TRUE
    /\ UNCHANGED <<hvars, message_queue, alive, dpc, sent>>

ChunkSizes == (1..MaxChunk) \cup {Len(upstream)}

\* range(1, 11)
TickCount == 10

\* f"data: tick {i}\n\n".encode() with more_body true
TickMessage(k) ==
    Item("http.response.body", <<"data: tick ", ToString(k), "\n\n">>, "None", TRUE)
\* the empty body with more_body false
LastMessage == Item("http.response.body", <<>>, "None", FALSE)

\* a send of test_stream_raw_asgi: the message is written, or the client has
\* gone, the send raises and, with no try around it, the exception leaves the
\* function
RawSend(msg, pc) ==
    IF disconnected
    THEN /\ failed' = Append(failed, msg) /\ raised' = SendFault /\ hpc' = "done"
         /\ sent' = sent
    ELSE /\ sent' = Append(sent, msg) /\ hpc' = pc
         /\ UNCHANGED <<failed, raised>>

\* `if scope['type'] != 'http': return`, else the response start
RawStart ==
    /\ transport = "raw" /\ hpc = "call"
    /\ IF scope # "http"
       THEN hpc' = "done" /\ UNCHANGED <<sent, tick_i>>
       ELSE sent' = Append(sent, StartMessage) /\ hpc' = "tick" /\ tick_i' = 1
    /\ UNCHANGED <<transport, status, lines, request, settings, fields, scope, mvars, bvars, lookups,
                   prepared, posted, upstream, consumed, buffer, pending, stopped, produced,
                   message_queue, alive, dpc, disconnected, posts, raised, closed, failed>>

\* the send of the loop body
RawTick ==
    /\ transport = "raw" /\ hpc = "tick"
    /\ RawSend(TickMessage(tick_i), "sleep")
    /\ UNCHANGED <<cvars, upstream, consumed, buffer, pending, stopped, produced,
                   message_queue, alive, dpc, disconnected, posts, closed>>

\* await asyncio.sleep(0.1), then the next i or the end of the range
RawSleep ==
    /\ transport = "raw" /\ hpc = "sleep"
    /\ IF tick_i < TickCount THEN tick_i' = tick_i + 1 /\ hpc' = "tick"
       ELSE tick_i' = tick_i /\ hpc' = "last"
    /\ UNCHANGED <<transport, status, lines, request, settings, fields, scope, mvars, bvars, lookups,
                   prepared, posted, upstream, consumed, buffer, pending, stopped, produced,
                   message_queue, alive, dpc, sent, disconnected, posts, raised, closed,
                   failed>>

\* the mutant of RawLast that returns without closing the body
RawLastOmitted ==
    /\ transport = "raw" /\ hpc = "last"
    /\ hpc' = "done"
    /\ UNCHANGED <<cvars, upstream, consumed, buffer, pending, stopped, produced,
                   message_queue, alive, dpc, sent, disconnected, posts, raised, closed,
                   failed>>

\* the send after the loop
RawLast ==
    /\ transport = "raw" /\ hpc = "last"
    /\ RawSend(LastMessage, "done")
    /\ UNCHANGED <<cvars, upstream, consumed, buffer, pending, stopped, produced,
                   message_queue, alive, dpc, disconnected, posts, closed>>

Raw == RawStart \/ RawTick \/ RawSleep \/ RawLast

\* the steps every transport has, and those of the generator besides
Steps == Entry \/ Begin \/ Post \/ Open \/ (\E n \in ChunkSizes : Read(n)) \/ ReadEOF \/ Emit \/ Exit

Handler == Steps \/ Resume \/ Accept \/ ReceiveBody

Next ==
    Handler \/ Fault \/ Poll \/ PollTimeout \/ CheckAlive \/ Join1 \/ Disconnect \/ Close \/ Raw

Spec == Init /\ [][Next]_vars

\* the steps of the delivery loop of receive, and the specification of the
\* WebSocket consumer alone with its scheduling: the event loop keeps running the
\* coroutine of receive, and the operating system lets a worker that has nothing
\* left to do but return do so.  Reads, faults and the client's going away are
\* under no obligation.
Deliver == Poll \/ PollTimeout \/ CheckAlive \/ Join1

InitLive == Init /\ transport = "ws"

NextLive == Steps \/ Fault \/ Deliver \/ Disconnect

SpecLive == InitLive /\ [][NextLive]_vars /\ WF_vars(Exit) /\ WF_vars(Deliver)

(***************************************************************************)
(* The parsing loops alone, on a wider set of streams: up to MaxMid lines   *)
(* of any kind between two optional delta lines, with or without a last     *)
(* unterminated line.                                                       *)
(***************************************************************************)
MaxMid == 1

ParseStreams ==
    {pre \o mid \o post : pre \in SeqsUpTo({LHi}, 1), mid \in SeqsUpTo(ParseMenu, MaxMid),
                          post \in SeqsUpTo({LAccent}, 1)}

\* ... and runs of up to MaxSkip lines the loops pass over in silence (blank,
\* empty, comment, undecodable), before, between and after the delta lines
MaxSkip == 2

SkippedLines == SilentLines \cup {LNotUtf8}

SkipStreams ==
    {pre \o mid \o post : pre \in SeqsUpTo({LHi}, 1), mid \in SeqsUpTo(SkippedLines, MaxSkip),
                          post \in SeqsUpTo({LAccent, LDone}, 1)}

InitParse ==
    /\ InitWith(ParseStreams, Tails) \/ InitWith(SkipStreams, EndTails)
    /\ request = "ok" /\ settings = "ok" /\ fields = FieldsOf(settings)
    /\ transport = "asgi" => inbox = <<HttpRequest(FALSE)>>

NextParse == Handler

SpecParse == InitParse /\ [][NextParse]_vars


(***************************************************************************)
(* Properties.                                                             *)
(***************************************************************************)
IsContent(it) == it.type = "content"
IsTerminalEnvelope(it) == it.type \in {"done", "error"}
Emitted == produced \o pending

RECURSIVE SplitLines(_)
\* the complete lines of a run of bytes (the bytes after the last LF are left out)
SplitLines(bs) ==
    IF ~HasLF(bs) THEN <<>>
    ELSE LET i == FirstLF(bs)
         IN  <<SubSeq(bs, 1, i - 1)>> \o SplitLines(SubSeq(bs, i + 1, Len(bs)))

Count(s, S) == Cardinality({i \in 1..Len(s) : s[i] \in S})

\* zero or more content envelopes, then exactly one done or error
WellFormedStream(s) ==
    /\ Len(s) >= 1
    /\ IsTerminalEnvelope(s[Len(s)])
    /\ \A i \in 1..(Len(s) - 1) : IsContent(s[i])

\* C1: when ChatConsumer.receive has left its delivery loop, what it sent for the
\* request is zero or more content envelopes followed by exactly one terminal
\* envelope (done or error), whatever the interleaving of worker and loop.
C1_ExactlyOneTerminalEnvelope ==
    (transport = "ws" /\ dpc = "returned") => WellFormedStream(sent)

\* C2: the content deltas sent to the client are exactly the content deltas the
\* worker put on the queue, in the same order: a prefix of them while the stream
\* runs, all of them once the delivery loop has ended.
C2_DeltasForwardedInOrder ==
    transport = "ws" =>
        LET s == SelectSeq(sent, IsContent)
            p == SelectSeq(produced, IsContent)
        IN  /\ Len(s) <= Len(p)
            /\ s = SubSeq(p, 1, Len(s))
            /\ dpc = "returned" => s = p

\* the lines after which the stream is over: [DONE], or a finish_reason
TerminatorLines == {LDone, LStop, LHiLength}
\* the lines that carry a non-empty delta content
ContentLines == {LHi, LAccent, LHiLength}

\* what an item carrying a delta looks like on each transport
IsDeltaItem(it) ==
    \/ it.type = "content"
    \/ it.type = "yield" /\ (it.body = <<>> \/ it.body[1] # ErrorMarker)
    \/ it.type = "http.response.body" /\ it.more_body

C4_ChunkBoundaryInvariance ==
    status = 200 =>
        LET whole == Feed(<<>>, consumed)
        IN  /\ Emitted = Items(transport, whole.ops) \o
                         (IF hpc \in {"emit", "exit", "done"} /\ stopped /\ ~whole.stopped
                          THEN EofItems(transport) ELSE <<>>)
            /\ ~stopped => buffer = whole.buffer

\* C4 witness: after a first event, a read of the worker ended between the two
\* bytes of a UTF-8 character of a later line
C4_Witness ==
    /\ transport = "ws" /\ produced # <<>>
    /\ buffer # <<>> /\ buffer[Len(buffer)] = "C3"
    /\ Len(buffer) >= 2 /\ buffer[1] = "data"


IsError(it) ==
    \/ it.type = "error"
    \/ it.type \in {"yield", "http.response.body"} /\ it.body # <<>> /\ it.body[1] = ErrorMarker

\* C5: when the upstream sent only content deltas and closed the connection with
\* no [DONE] and no finish_reason, and no exception occurred, the client of
\* ChatConsumer has received a final done envelope by the time receive leaves
\* its delivery loop.
C5_DoneAfterSilentEOF ==
    ( /\ transport = "ws" /\ status = 200 /\ dpc = "returned" /\ posts = 1
      /\ lines # <<>> /\ \A i \in 1..Len(lines) : lines[i] \in DeltaLines
      /\ \A i \in 1..Len(produced) : ~IsError(produced[i]) )
    => (sent # <<>> /\ sent[Len(sent)].type = "done")

IsFinalBody(it) == it.type = "http.response.body" /\ ~it.more_body

\* C6: once chat_stream_asgi has sent the response start and has returned, it has
\* sent exactly one final body message (more_body false), as its last message, on
\* every outcome.
C6_BodyClosedExactlyOnce ==
    (transport = "asgi" /\ hpc = "done" /\ sent # <<>>) =>
        /\ Cardinality({i \in 1..Len(sent) : IsFinalBody(sent[i])}) = 1
        /\ IsFinalBody(sent[Len(sent)])

\* C7: once the WebSocket client has disconnected after a first delta, nothing more
\* is sent downstream and the worker reads no further bytes from the upstream.
C7_DisconnectStopsStream ==
    [][(transport = "ws" /\ disconnected /\ SelectSeq(sent, IsContent) # <<>>)
         => (sent' = sent /\ consumed' = consumed)]_vars

\* the delta a delta line carries, as text and as the bytes of the ASGI body
ExpectedText(line) == IF line = LHi THEN <<"H">> ELSE <<"e'">>
ExpectedBytes(line) == IF line = LHi THEN <<"H">> ELSE <<"C3", "A9">>
ExpectedDelta(tr, line) ==
    CASE tr = "ws"   -> Item("content", ExpectedText(line), "None", FALSE)
      [] tr = "http" -> Item("yield", ExpectedText(line), "None", FALSE)
      [] tr = "asgi" -> Item("http.response.body", ExpectedBytes(line), "None", TRUE)

\* a delta line, one or more lines of S, a delta line
Sandwich(S) ==
    /\ Len(lines) >= 3
    /\ lines[1] \in DeltaLines /\ lines[Len(lines)] \in DeltaLines
    /\ \A i \in 2..(Len(lines) - 1) : lines[i] \in S

\* both deltas around the lines in between were emitted, in order, nothing else was
\* but the closing done of the worker, and the loop ran to the end of the stream
BothDeltasEmitted ==
    /\ SelectSeq(produced, IsDeltaItem)
          = <<ExpectedDelta(transport, lines[1]), ExpectedDelta(transport, lines[Len(lines)])>>
    /\ \A i \in 1..Len(produced) : ~IsError(produced[i])
    /\ upstream = <<>>

\* C8: a line that is not valid JSON between two valid delta lines produces no
\* event and does not end the stream: both deltas are emitted, in order.
C8_MalformedLineSkipped ==
    (status = 200 /\ hpc = "done" /\ Sandwich(MalformedLines)) => BothDeltasEmitted

C8_Witness ==
    /\ transport = "ws" /\ status = 200 /\ hpc = "done"
    /\ lines = <<LHi, LBad, LAccent>> /\ Len(produced) = 3

\* C9: a line that is JSON but no object of the expected shape (null, an array,
\* "delta": null) between two valid delta lines is skipped like a malformed one:
\* no error event, and the later delta is still emitted.
C9_MisshapenLineSkipped ==
    (status = 200 /\ hpc = "done" /\ Sandwich(MisshapenLines)) => BothDeltasEmitted

\* C10: when the upstream answers with a status that is not 200, no byte of the
\* body is read into the parser, no delta is emitted, and the stream is exactly
\* one error item that carries the upstream's error body.
C10_StatusErrorOnly ==
    status # 200 =>
        /\ consumed = <<>> /\ buffer = <<>>
        /\ \A i \in 1..Len(Emitted) :
              IsError(Emitted[i]) /\ \E k \in 1..Len(Emitted[i].body) : Emitted[i].body[k] = ErrorBody
        /\ Len(Emitted) <= 1
        /\ hpc = "done" => Len(produced) = 1

C10_Witness ==
    /\ status = 401 /\ hpc = "done" /\ transport = "http" /\ lines # <<>>
    /\ produced = <<Item("yield", <<ErrorMarker, "API error: ", ErrorBody>>, "None", FALSE)>>

(***************************************************************************)
(* The entry points, the faults and the downstream's going away.           *)
(***************************************************************************)
\* C11: when the settings record is missing or its api_key is empty, each of the
\* three entry points sends exactly one error event that names the missing
\* credential, sends no delta, starts no worker and never calls requests.post.
C11_NoCredentialNoRequest ==
    (settings # "ok" /\ RequestErrors(transport, request) = <<>>) =>
        /\ posts = 0 /\ ~alive /\ hpc \in {"entry", "done"}
        /\ produced = <<>> /\ pending = <<>> /\ message_queue = <<>>
        /\ \A i \in 1..Len(sent) : ~IsDeltaItem(sent[i])
        /\ hpc = "done" =>
              /\ Cardinality({i \in 1..Len(sent) : IsError(sent[i])}) = 1
              /\ IsError(sent[Len(sent)])
              /\ transport = "ws" => dpc = "returned"

\* C11 witness: the ASGI handler has returned on a record with an empty api_key
C11_Witness ==
    /\ transport = "asgi" /\ settings = "nokey" /\ request = "ok" /\ hpc = "done"
    /\ sent = <<Start("200"),
                Item("http.response.body", <<ErrorMarker, "API key not configured">>, "None", FALSE)>>

\* C12: whenever the delivery loop of ChatConsumer.receive takes the error chunk
\* of the worker's except clause off the queue, whatever the message in it, it
\* sends one error envelope with that message and leaves the loop.
C12_WorkerErrorDelivered ==
    [][( /\ transport = "ws" /\ message_queue # <<>>
         /\ Head(message_queue).type = "error"
         /\ message_queue' = Tail(message_queue) )
       => ( /\ sent' = Append(sent, Item("error", Head(message_queue).body, "None", FALSE))
            /\ dpc' = "join" )]_vars

\* the exceptions that are a timeout or a connection failure of the upstream exchange
TimeoutClasses == {"requests.Timeout", "urllib3.ReadTimeoutError"}
ConnectionClasses == {"requests.ConnectionError"}
\* the texts by which an error message names a timeout
TimeoutTexts == {"timed out", "Read timed out.", "Request timeout"}

\* what the downstream has been handed once the request is over
Finished == IF transport = "ws" THEN dpc = "returned" ELSE hpc = "done"
Delivered == IF transport = "ws" THEN sent ELSE produced

\* C13: when requests.post or the body read has timed out or lost the connection,
\* and the client is still there, the stream the client has been handed once the
\* request is over ends with exactly one error event, and for a timeout its
\* message names the timeout.
C13_TimeoutIsOneDistinctError ==
    (raised.cls \in (TimeoutClasses \cup ConnectionClasses) /\ failed = <<>> /\ Finished) =>
        /\ Cardinality({i \in 1..Len(Delivered) : IsError(Delivered[i])}) = 1
        /\ IsError(Delivered[Len(Delivered)])
        /\ raised.cls \in TimeoutClasses =>
              \E k \in 1..Len(Delivered[Len(Delivered)].body) :
                  Delivered[Len(Delivered)].body[k] \in TimeoutTexts

\* a capacity for the queue between worker and delivery loop.  The code names
\* none (maxsize is 0); whatever the number, a stream of that many delta lines
\* and its closing done exceed it, and MaxLines lines can show it for this one.
SmallCapacity == 2

\* C14: the queue between the worker and the delivery loop never holds more than
\* a small fixed number of events: the worker waits in put while it is full.
C14_QueueBounded ==
    Len(message_queue) <= SmallCapacity

\* who runs the blocking calls of the upstream exchange: the thread started for
\* stream_llm_sync; whoever iterates the StreamingHttpResponse (a thread of the
\* server); the coroutine chat_stream_asgi itself, that is the event loop
Executor(tr) ==
    CASE tr = "ws"   -> "worker thread"
      [] tr = "http" -> "response iterator"
      [] tr = "asgi" -> "event loop"

\* the handler is inside requests.post or inside a read of raw.stream
Blocking == hpc \in {"open", "read"}

\* C15: on every transport, requests.post and the reads of the body are never
\* run by the event loop that delivers downstream.
C15_BlockingOffEventLoop ==
    Blocking => Executor(transport) # "event loop"

\* the worker has put its terminal event (done or error) on the queue
TerminalPut == \E i \in 1..Len(produced) : IsTerminalEnvelope(produced[i])

\* C16: once the worker of ChatConsumer.receive has put its terminal event, receive
\* leaves its delivery loop and returns, whether the loop takes the event from the
\* queue, finds the worker dead, or the event is one it does not forward; the join
\* that follows the loop is limited to one second and does not wait for the worker.
C16_ReceiveReturns ==
    (transport = "ws" /\ TerminalPut) ~> (dpc = "returned")

\* C16 witness: receive has forwarded the done envelope and returned while the
\* worker thread is still alive
C16_Witness ==
    /\ transport = "ws" /\ TerminalPut /\ dpc = "returned" /\ alive
    /\ sent # <<>> /\ sent[Len(sent)].type = "done"

\* C17: once the write of a delta by chat_stream_asgi has failed because the
\* client has gone, the handler reads no further byte from the upstream and
\* attempts no further write, an [ERROR] body included.
C17_NoWriteAfterFailedWrite ==
    [][(transport = "asgi" /\ failed # <<>> /\ IsDeltaItem(failed[1]))
         => (failed' = failed /\ sent' = sent /\ consumed' = consumed)]_vars

\* C18: when the downstream closes the generator event_stream at one of its yields,
\* that step yields nothing, produces no [ERROR] item, reads nothing, leaves the
\* with block (api_response is closed) and ends the generator; nothing changes
\* after it.
C18_CloseStopsGenerator ==
    [][(transport = "http" /\ disconnected')
         => ( /\ produced' = produced /\ sent' = sent /\ consumed' = consumed
              /\ closed' /\ hpc' = "done" )]_vars

\* C18 witness: the generator was closed after its first delta, with a second
\* delta line of the upstream still unread
C18_Witness ==
    /\ transport = "http" /\ disconnected /\ closed /\ hpc = "done"
    /\ lines = <<LHi, LHi>> /\ upstream # <<>>
    /\ produced = <<Item("yield", <<"H">>, "None", FALSE)>>

IsStart(it) == it.type = "http.response.start"

\* C19: chat_stream_asgi never sends a second response start, sends no body
\* message before the start, and on every path has sent exactly one start by the
\* time it is over.
C19_ExactlyOneStartFirst ==
    transport = "asgi" =>
        /\ Cardinality({i \in 1..Len(sent) : IsStart(sent[i])}) <= 1
        /\ sent # <<>> => IsStart(sent[1])
        /\ hpc = "done" => Cardinality({i \in 1..Len(sent) : IsStart(sent[i])}) = 1

\* the finish_reason a line of the upstream carries; "None" when it has none
ReasonOf(line) ==
    CASE line = LStop     -> "stop"
      [] line = LHiLength -> "length"
      [] line = LFinEmpty -> ""
      [] OTHER            -> "None"

\* the index of the first line of ls that is in S, 0 when there is none
FirstIn(ls, S) ==
    IF \E i \in 1..Len(ls) : ls[i] \in S
    THEN CHOOSE i \in 1..Len(ls) : ls[i] \in S /\ \A j \in 1..(i - 1) : ls[j] \notin S
    ELSE 0

\* the lines that carry a finish_reason that is not null, the empty one included
ReasonLines == {line \in ParseMenu : ReasonOf(line) # "None"}

IsDone(it) == it.type = "done"
DoneEnvelopes == SelectSeq(sent, IsDone)

RECURSIVE Without(_, _)
\* the lines of ls that are not in S, in order
Without(ls, S) ==
    IF ls = <<>> THEN <<>>
    ELSE (IF Head(ls) \in S THEN <<>> ELSE <<Head(ls)>>) \o Without(Tail(ls), S)

\* the bytes read so far after the last line feed
Residue(bs) == SubSeq(bs, Len(Join(SplitLines(bs))) + 1, Len(bs))

\* what has been emitted and whether the loop has stopped are what they would be
\* had the upstream never sent the lines of S among the lines read so far
AsIfAbsent(S) ==
    LET ref == Feed(<<>>, Join(Without(SplitLines(consumed), S)) \o Residue(consumed))
    IN  /\ Emitted = Items(transport, ref.ops) \o
                     (IF hpc \in {"emit", "yielded", "exit", "done"} /\ stopped /\ ~ref.stopped
                      THEN EofItems(transport) ELSE <<>>)
        /\ ref.stopped => stopped
        /\ (stopped /\ ~ref.stopped) => upstream = <<>>

\* C21: a line whose bytes are not valid UTF-8 produces no event and does not end
\* the stream, and the lines around it produce exactly what they produce without
\* it: at every moment the items emitted are those of the same bytes with the
\* undecodable lines taken out, and the loop stops only where it stops then.
C21_UndecodableLineDropped ==
    status = 200 => AsIfAbsent({LNotUtf8})

\* C21 witness: the generator has yielded both deltas around an undecodable line
C21_Witness ==
    /\ transport = "http" /\ status = 200 /\ hpc = "done"
    /\ lines = <<LHi, LNotUtf8, LAccent>>
    /\ produced = <<Item("yield", <<"H">>, "None", FALSE), Item("yield", <<"e'">>, "None", FALSE)>>

\* C22: lines that are empty once the line ending is trimmed, and lines that
\* start with a colon, produce no event however many there are and wherever they
\* stand: at every moment the items emitted are those of the same bytes with
\* these lines taken out, and the loop stops only where it stops then.
C22_SilentLinesIgnored ==
    status = 200 => AsIfAbsent(SilentLines)

\* C22 witness: a blank line and a comment in a row between two deltas, both
\* deltas delivered to the queue and the final done after them
C22_Witness ==
    /\ transport = "ws" /\ status = 200 /\ hpc = "done"
    /\ \E a, b \in SilentLines : a # b /\ lines = <<LHi, a, b, LAccent>>
    /\ produced = <<Item("content", <<"H">>, "None", FALSE),
                    Item("content", <<"e'">>, "None", FALSE),
                    Item("done", <<>>, "None", FALSE)>>

\* C30: events come from lines that a line feed ended.  At every moment the items
\* emitted are those of the complete lines read so far; when the body ends, the
\* bytes after the last line feed add nothing, be they a whole delta or [DONE],
\* and the WebSocket worker then queues its one plain done.
C30_UnterminatedTailDiscarded ==
    status = 200 =>
        LET ref == Feed(<<>>, Join(SplitLines(consumed)))
            eof == hpc \in {"emit", "yielded", "exit", "done"} /\ stopped /\ ~ref.stopped
        IN  /\ Emitted = Items(transport, ref.ops) \o (IF eof THEN EofItems(transport) ELSE <<>>)
            /\ eof => upstream = <<>>

\* C30 witness: the body ended with an unterminated [DONE] after one delta line;
\* the worker queued the delta and the done of the end of the body
C30_Witness ==
    /\ transport = "ws" /\ status = 200 /\ hpc = "done"
    /\ lines = <<LHi>> /\ Residue(consumed) = LDone
    /\ produced = <<Item("content", <<"H">>, "None", FALSE), Item("done", <<>>, "None", FALSE)>>

\* C30 witness for the generator: an unterminated delta after one delta line
C30_WitnessHttp ==
    /\ transport = "http" /\ status = 200 /\ hpc = "done"
    /\ lines = <<LHi>> /\ Residue(consumed) = LHi
    /\ produced = <<Item("yield", <<"H">>, "None", FALSE)>>

\* the delta content a line of the model carries
ContentOf(line) ==
    CASE line \in {LHi, LHiLength} -> <<"H">>
      [] line = LAccent            -> <<"e'">>
      [] OTHER                     -> <<>>

RECURSIVE ContentUpToEnd(_)
\* the contents of the lines in order, up to and with the line that ends the
\* stream: a [DONE], a line with a finish_reason (its own content comes before
\* its finish_reason is looked at), a line on which the loop raises
ContentUpToEnd(ls) ==
    IF ls = <<>> THEN <<>>
    ELSE ContentOf(Head(ls)) \o
         (IF Head(ls) \in TerminatorLines \cup MisshapenLines THEN <<>>
          ELSE ContentUpToEnd(Tail(ls)))

RECURSIVE PlainBody(_)
\* the bytes of the chunks that are not error chunks, one after the other
PlainBody(items) ==
    IF items = <<>> THEN <<>>
    ELSE (IF IsError(Head(items)) THEN <<>> ELSE Head(items).body) \o PlainBody(Tail(items))

RECURSIVE ContentBeforeEnd(_)
\* the contents of the lines in order, up to and without the line that ends the
\* stream
ContentBeforeEnd(ls) ==
    IF ls = <<>> \/ Head(ls) \in TerminatorLines \cup MisshapenLines THEN <<>>
    ELSE ContentOf(Head(ls)) \o ContentBeforeEnd(Tail(ls))

EndingLines == TerminatorLines \cup MisshapenLines

RECURSIVE DeltaTextsUpToEnd(_)
\* the delta texts of the lines as UTF-8, one per line that has one, up to and
\* with the line that ends the stream
DeltaTextsUpToEnd(ls) ==
    IF ls = <<>> THEN <<>>
    ELSE (IF ContentOf(Head(ls)) = <<>> THEN <<>> ELSE <<Utf8Encode(ContentOf(Head(ls)))>>) \o
         (IF Head(ls) \in EndingLines THEN <<>> ELSE DeltaTextsUpToEnd(Tail(ls)))

RECURSIVE DeltaTexts(_)
\* the delta texts a relay has handed on, as UTF-8: the text of a queue item or
\* of a yield, the body of an ASGI message
DeltaTexts(items) ==
    IF items = <<>> THEN <<>>
    ELSE (IF ~IsDeltaItem(Head(items)) THEN <<>>
          ELSE IF Head(items).type = "http.response.body" THEN <<Head(items).body>>
          ELSE <<Utf8Encode(Head(items).body)>>) \o DeltaTexts(Tail(items))

DefaultFields == [api_key |-> "", base_url |-> <<>>, temperature |-> "0.7"]

\* `if not settings.api_key` as the entry points will find it
StateOf(f) == IF f.api_key = "" THEN "nokey" ELSE "ok"

\* SettingsViewSet.update: get_or_create, then apiKey and baseUrl if the request
\* carries them, then save
UpdateSettings ==
    /\ \E apiKey \in Keys \cup {"absent"}, baseUrl \in Bases \cup {<<"absent">>} :
          LET old == IF settings = "missing" THEN DefaultFields ELSE fields
              new == [old EXCEPT !.api_key = IF apiKey = "absent" THEN @ ELSE apiKey,
                                 !.base_url = IF baseUrl = <<"absent">> THEN @ ELSE baseUrl]
          IN  fields' = new /\ settings' = StateOf(new)
    /\ UNCHANGED <<transport, status, lines, request, bvars, tvars, mvars, lookups, prepared, posted, upstream,
                   consumed, buffer, hpc, pending, stopped, produced, message_queue, alive,
                   dpc, sent, disconnected, posts, raised, closed, failed>>

\* SettingsViewSet.reset: delete, then create with the default values
ResetSettings ==
    /\ fields' = DefaultFields
    /\ settings' = "nokey"
    /\ UNCHANGED <<transport, status, lines, request, bvars, tvars, mvars, lookups, prepared, posted, upstream,
                   consumed, buffer, hpc, pending, stopped, produced, message_queue, alive,
                   dpc, sent, disconnected, posts, raised, closed, failed>>

\* the records a request may find: none, or one with any of the fields
InitSettings ==
    /\ InitWith(SeqsUpTo({LHi}, MaxLines), {<<>>})
    /\ request = "ok"
    /\ \/ settings = "missing" /\ fields = DefaultFields
       \/ /\ fields \in [api_key : Keys, base_url : Bases, temperature : Temperatures]
          /\ settings = StateOf(fields)

NextSettings == Handler \/ UpdateSettings \/ ResetSettings

SpecSettings == InitSettings /\ [][NextSettings]_vars

\* C25: a stream fetches the record once, before the upstream is opened, and does
\* not fetch it again; the request sent to the upstream is the one built from the
\* record as it was fetched and stays so whatever is saved afterwards; no step
\* of a stream creates, changes or deletes the record, also when there is none:
\* a step in which the record changes is a step of its owner, not of the stream.
C25_SettingsReadOnceNeverWritten ==
    /\ [](/\ lookups <= 1
          /\ posts >= 1 => (lookups = 1 /\ prepared # NoConfig /\ posted = prepared))
    /\ [][/\ posts >= 1 => (lookups' = lookups /\ posted' = posted)
          /\ (settings' # settings \/ fields' # fields) =>
                 UNCHANGED <<hpc, dpc, lookups, prepared, posted, posts, produced, sent>>]_vars

\* C25 witness: a WebSocket stream ran to its end with the request of the record
\* it had fetched, while the record now holds another key
C25_Witness ==
    /\ transport = "ws" /\ hpc = "done" /\ posts = 1 /\ lookups = 1
    /\ produced # <<>> /\ settings = "ok"
    /\ posted.Authorization = <<"Bearer ", "sk-1">> /\ fields.api_key = "sk-2"

(***************************************************************************)
(* The base URL: every configured value, through each entry point.         *)
(***************************************************************************)
MaxUrl == 4

InitUrl ==
    /\ InitWith({<<>>}, {<<>>})
    /\ request = "ok" /\ settings = "ok"
    /\ fields \in [api_key : {"sk-1"}, base_url : SeqsUpTo(UrlChars, MaxUrl),
                   temperature : {"0.7"}]

NextUrl == Accept \/ ReceiveBody \/ Entry

SpecUrl == InitUrl /\ [][NextUrl]_vars

\* the URL without its run of trailing slashes
Core(u) ==
    LET k == CHOOSE k \in 0..Len(u) :
                 /\ k = 0 \/ u[k] # "/"
                 /\ \A j \in (k + 1)..Len(u) : u[j] = "/"
    IN  SubSeq(u, 1, k)

\* C26: the base URL an entry point has built ends with /v1 and not with a slash,
\* normalizing it again changes nothing, and it is the configured URL (or the
\* default when none is configured) without its trailing slashes, with /v1
\* appended only if that does not already end with /v1: the same value on the
\* WebSocket, the generator and the ASGI entry point.
C26_BaseUrlNormalized ==
    prepared # NoConfig =>
        LET u == prepared.base_url
            core == Core(BaseOrDefault(fields.base_url))
        IN  /\ EndsWith(u, V1)
            /\ u[Len(u)] # "/"
            /\ Normalize(u) = u
            /\ u = (IF EndsWith(core, V1) THEN core ELSE core \o V1)

\* C26 witness: the ASGI entry point was given "/v1/" and built "/v1"
C26_Witness ==
    /\ transport = "asgi" /\ hpc = "begin"
    /\ fields.base_url = <<"/", "v", "1", "/">>
    /\ prepared.base_url = <<"/", "v", "1">>

\* C29: the loop that reads the request body of chat_stream_asgi ends whatever
\* receive() returns: once receive() has returned http.disconnect, the handler is
\* no longer reading the body.
C29_BodyLoopEnds ==
    (transport = "asgi" /\ message = HttpDisconnect) => bpc # "reading"

\* what test_stream_raw_asgi sends on an HTTP scope: the start, the ten ticks,
\* the empty last body
TickScript == <<StartMessage>> \o [k \in 1..TickCount |-> TickMessage(k)] \o <<LastMessage>>

\* C27: test_stream_raw_asgi sends nothing on a scope that is not HTTP; on an
\* HTTP scope what it has sent is at every moment the beginning of one start,
\* `data: tick i` for i = 1..10 in order with more_body true, one empty body with
\* more_body false, and it is all of it, with nothing after, once the function
\* has returned.
C27_TickScript ==
    transport = "raw" =>
        /\ scope # "http" => sent = <<>>
        /\ Len(sent) <= Len(TickScript) /\ sent = SubSeq(TickScript, 1, Len(sent))
        /\ (scope = "http" /\ hpc = "done" /\ raised = NoExc) => sent = TickScript

\* C27 witness: the function has returned on an HTTP scope after its twelve sends
C27_Witness ==
    /\ transport = "raw" /\ scope = "http" /\ hpc = "done" /\ raised = NoExc
    /\ Len(sent) = TickCount + 2
    /\ sent[TickCount + 1] = TickMessage(TickCount) /\ sent[TickCount + 2] = LastMessage

(***************************************************************************)
(* Two chat requests of ChatConsumer: on two connections at the same time, *)
(* or one after the other on one connection.                               *)
(***************************************************************************)
MaxTurnLines == 1
TurnChunk == 4

\* the mutant of QueueOf with one queue for every call
QueueOfShared(r) == 1

\* `message_queue = queue.Queue()` is a local of the receive call
QueueOf(r) == r

\* `buffer = b''` is a local of the worker of the call
BufferOf(r) == r

\* the first request streams "H", the second an accented text; either may end
\* with a delta that also carries a finish_reason, with [DONE], or without it,
\* and the first may leave an unterminated line behind
TurnStreams(r) ==
    LET delta == IF r = 1 THEN LHi ELSE LAccent
    IN  {ds \o end : ds \in SeqsUpTo({delta}, MaxTurnLines),
                     end \in {<<>>, <<LDone>>} \cup (IF r = 1 THEN {<<LHiLength>>} ELSE {})}
TurnTails(r) == IF r = 1 THEN {<<>>, LHi} ELSE {<<>>}

InitTurns ==
    /\ transport = "ws" /\ scope = "websocket" /\ tick_i = 0
    /\ status = 200 /\ lines = <<>> /\ upstream = <<>> /\ consumed = <<>> /\ buffer = <<>>
    /\ hpc = "turns" /\ pending = <<>> /\ stopped = FALSE /\ produced = <<>>
    /\ message_queue = <<>> /\ alive = FALSE /\ dpc = "idle" /\ sent = <<>>
    /\ disconnected = FALSE /\ posts = 0 /\ raised = NoExc /\ closed = FALSE
    /\ failed = <<>> /\ lookups = 0 /\ prepared = NoConfig /\ posted = NoConfig
    /\ inbox = <<>> /\ message = NoMessage /\ bpc = "idle"
    /\ request = "ok" /\ settings = "ok" /\ fields = FieldsOf("ok")
    /\ \E conn \in Rs, l1 \in TurnStreams(1), t1 \in TurnTails(1), l2 \in TurnStreams(2) :
          turns = [r \in Rs |-> IF r = 1 THEN IdleTurn(1, l1, t1) ELSE IdleTurn(conn, l2, <<>>)]
    /\ queues = [r \in Rs |-> <<>>]
    /\ buffers = [r \in Rs |-> <<>>]
    /\ wire = [c \in Rs |-> <<>>]

ovars == <<transport, status, lines, request, settings, fields, tvars, bvars, lookups,
           prepared, posted, upstream, consumed, buffer, hpc, pending, stopped, produced,
           message_queue, alive, dpc, sent, disconnected, posts, raised, closed, failed>>

\* ChatConsumer.receive is called with a chat message and starts its worker; the
\* consumer of a connection handles one message at a time
TurnStart(r) ==
    /\ turns[r].dpc = "idle"
    /\ \A q \in Rs \ {r} : turns[q].conn = turns[r].conn => turns[q].dpc \in {"idle", "returned"}
    /\ turns' = [turns EXCEPT ![r].wpc = "read", ![r].alive = TRUE, ![r].dpc = "poll"]
    /\ UNCHANGED <<ovars, queues, buffers, wire>>

\* one iteration of the worker's read loop, with the puts of its events; the
\* read returns TurnChunk bytes, which cuts a line, or all that is left
TurnRead(r, n) ==
    /\ turns[r].wpc = "read"
    /\ turns[r].upstream # <<>>
    /\ n <= Len(turns[r].upstream)
    /\ LET byte_chunk == SubSeq(turns[r].upstream, 1, n)
           res == Feed(buffers[BufferOf(r)], byte_chunk)
       IN  /\ buffers' = [buffers EXCEPT ![BufferOf(r)] = res.buffer]
           /\ queues' = [queues EXCEPT ![QueueOf(r)] = @ \o Items("ws", res.ops)]
           /\ turns' = [turns EXCEPT
                          ![r].upstream = SubSeq(@, n + 1, Len(@)),
                          ![r].consumed = @ \o byte_chunk,
                          ![r].wpc = IF res.stopped THEN "exit" ELSE "read"]
    /\ UNCHANGED <<ovars, wire>>

\* the upstream's body has ended: the done of line 186
TurnEOF(r) ==
    /\ turns[r].wpc = "read"
    /\ turns[r].upstream = <<>>
    /\ queues' = [queues EXCEPT ![QueueOf(r)] = @ \o EofItems("ws")]
    /\ turns' = [turns EXCEPT ![r].wpc = "exit"]
    /\ UNCHANGED <<ovars, buffers, wire>>

\* the worker returns
TurnExit(r) ==
    /\ turns[r].wpc = "exit"
    /\ turns' = [turns EXCEPT ![r].wpc = "done", ![r].alive = FALSE]
    /\ UNCHANGED <<ovars, queues, buffers, wire>>

\* self.send of the receive call r, on its connection
Sends(r, envelopes) ==
    wire' = [wire EXCEPT ![turns[r].conn] =
                 @ \o [k \in 1..Len(envelopes) |-> [by |-> r, envelope |-> envelopes[k]]]]

\* message_queue.get(timeout=0.01) returned a chunk
TurnPoll(r) ==
    /\ turns[r].dpc = "poll"
    /\ queues[QueueOf(r)] # <<>>
    /\ LET chunk == Head(queues[QueueOf(r)])
       IN  /\ Sends(r, Envelopes(chunk))
           /\ turns' = [turns EXCEPT ![r].dpc = IF Breaks(chunk) THEN "returned" ELSE "poll"]
    /\ queues' = [queues EXCEPT ![QueueOf(r)] = Tail(@)]
    /\ UNCHANGED <<ovars, buffers>>

\* message_queue.get(timeout=0.01) raised queue.Empty
TurnPollTimeout(r) ==
    /\ turns[r].dpc = "poll"
    /\ queues[QueueOf(r)] = <<>>
    /\ turns' = [turns EXCEPT ![r].dpc = "empty"]
    /\ UNCHANGED <<ovars, queues, buffers, wire>>

\* except queue.Empty: thread.is_alive(), get_nowait, break or sleep
TurnCheckAlive(r) ==
    /\ turns[r].dpc = "empty"
    /\ IF turns[r].alive
       THEN /\ turns' = [turns EXCEPT ![r].dpc = "poll"]
            /\ UNCHANGED <<queues, wire>>
       ELSE /\ turns' = [turns EXCEPT ![r].dpc = "returned"]
            /\ IF queues[QueueOf(r)] # <<>>
               THEN /\ Sends(r, LateEnvelopes(Head(queues[QueueOf(r)])))
                    /\ queues' = [queues EXCEPT ![QueueOf(r)] = Tail(@)]
               ELSE UNCHANGED <<queues, wire>>
    /\ UNCHANGED <<ovars, buffers>>

NextTurns ==
    \E r \in Rs :
        \/ TurnStart(r)
        \/ \E n \in {TurnChunk, Len(turns[r].upstream)} : TurnRead(r, n)
        \/ TurnEOF(r)
        \/ TurnExit(r)
        \/ TurnPoll(r)
        \/ TurnPollTimeout(r)
        \/ TurnCheckAlive(r)

SpecTurns == InitTurns /\ [][NextTurns]_vars

\* every event the worker of a request has to put for the bytes it has read
OwnItems(r) ==
    LET ref == Feed(<<>>, turns[r].consumed)
    IN  Items("ws", ref.ops) \o
        (IF turns[r].wpc \in {"exit", "done"} /\ ~ref.stopped THEN EofItems("ws") ELSE <<>>)

IsSuffix(s, t) == Len(s) <= Len(t) /\ s = SubSeq(t, Len(t) - Len(s) + 1, Len(t))

\* the delta texts a call has sent: those of the entries of its connection's
\* wire that it sent
RECURSIVE SentTexts(_, _)
SentTexts(w, r) ==
    IF w = <<>> THEN <<>>
    ELSE (IF Head(w).by = r /\ Head(w).envelope.type = "content"
          THEN <<Head(w).envelope.body>> ELSE <<>>) \o SentTexts(Tail(w), r)

RECURSIVE TextsOf(_)
\* the delta texts of a queue's events
TextsOf(items) ==
    IF items = <<>> THEN <<>>
    ELSE (IF Head(items).type = "content" THEN <<Head(items).body>> ELSE <<>>)
         \o TextsOf(Tail(items))

IsPrefix(s, t) == Len(s) <= Len(t) /\ s = SubSeq(t, 1, Len(s))

\* C23: each chat request has its own buffer, worker and queue, on two
\* connections at once and on one connection turn after turn.  The buffer of a
\* request holds bytes of its own upstream only (the rest of what it has read),
\* its queue holds events of its own upstream only (the last ones put), what its
\* call has sent are deltas of its own upstream in order, and on a connection
\* the envelopes of one call are not mixed with those of another.
C23_StreamsIsolated ==
    hpc = "turns" =>
        /\ \A r \in Rs :
              /\ turns[r].wpc = "read" =>
                     buffers[BufferOf(r)] = Feed(<<>>, turns[r].consumed).buffer
              /\ IsSuffix(queues[QueueOf(r)], OwnItems(r))
              /\ IsPrefix(SentTexts(wire[turns[r].conn], r), TextsOf(OwnItems(r)))
        /\ \A c \in Rs : \A a, b, d \in 1..Len(wire[c]) :
              (a < b /\ b < d /\ wire[c][a].by = wire[c][d].by) => wire[c][b].by = wire[c][a].by

\* C23 witness: two turns on one connection; the first lost its race and left
\* events in its queue, the second has delivered its own delta and its done
C23_Witness ==
    /\ hpc = "turns" /\ turns[1].conn = turns[2].conn
    /\ turns[1].dpc = "returned" /\ turns[2].dpc = "returned"
    /\ queues[1] # <<>>
    /\ SentTexts(wire[1], 2) = <<<<"e'">>>>
    /\ wire[1][Len(wire[1])].by = 2 /\ wire[1][Len(wire[1])].envelope.type = "done"

====
